---- MODULE Spec2Model ----
(***************************************************************************)
(* A model of the feed engine of src/script.js: the module-level state     *)
(* (artworks, currentArtIndex, loadedArtIds, isLoading, currentQuery), the *)
(* children of #art-container, the suspended activations of the async      *)
(* function fetchArtPieces, and the event handlers that mutate them.       *)
(* Every handler runs to completion (JavaScript's single event loop); the  *)
(* suspension points are the two awaits of fetchArtPieces and the awaits of *)
(* translateText. A slide is an element with the id of its record and the  *)
(* text of its title and description; a slide out of the document is kept  *)
(* without its text, which nothing reads.                                  *)
(***************************************************************************)
EXTENDS Integers, Sequences, FiniteSets, TLC

\* ------------------------------------------------------------------ bounds
MaxBatch == 2       \* items in one catalog response (the code asks for 15 or 50)
MaxLen == 4         \* the catalog stops returning items once artworks is this long
MaxResets == 1      \* pivots the user makes
MaxLenT == 3        \* MaxLen where the translation service answers

\* ------------------------------------------------------- program constants
TailThreshold == 3  \* currentArtIndex >= artworks.length - 3
SearchLimit == 50
DiscoveryLimit == 15
NoDataId == -1      \* what parseInt gives for the error slide, which has no data-id

NULL == "null"
UNKNOWN_ARTIST == "UnknownArtist"   \* the literal of lines 86 and 191
UNTITLED == "Untitled"              \* the literal of line 87

\* ---------------------------------------------------------------- catalog
\* The catalog the model runs against: what the remote API holds for each
\* item, in the fields the code reads. artist_display is a sequence of lines;
\* <<>> stands for an absent or empty value (both falsy in JavaScript). Lines
\* are never empty.
Catalog ==
  {[id |-> 1, image_id |-> "img", artist_display |-> <<"Monet", "French">>,
    title |-> "title", short_description |-> "text"],
   [id |-> 2, image_id |-> "img", artist_display |-> <<>>,
    title |-> "title", short_description |-> NULL],
   [id |-> 3, image_id |-> "img", artist_display |-> <<"Degas">>,
    title |-> NULL, short_description |-> NULL],
   [id |-> 4, image_id |-> NULL, artist_display |-> <<"Monet">>,
    title |-> "title", short_description |-> "text"]}

\* item => ({id, src, author, title, description}), lines 83-89
MapItem(item) ==
  [id |-> item.id,
   src |-> item.image_id,
   author |-> IF item.artist_display # <<>> THEN Head(item.artist_display)
              ELSE UNKNOWN_ARTIST,
   title |-> IF item.title # NULL THEN item.title ELSE UNTITLED,
   description |-> item.short_description]

RECURSIVE FilterMap(_)
\* data.data.filter(item => item.image_id).map(...), lines 81-89
FilterMap(data) ==
  IF data = <<>> THEN <<>>
  ELSE IF Head(data).image_id # NULL
       THEN <<MapItem(Head(data))>> \o FilterMap(Tail(data))
       ELSE FilterMap(Tail(data))

\* the sequences without repetition over a set, of length at most n
RECURSIVE SeqsOver(_, _)
SeqsOver(S, n) ==
  IF n = 0 THEN {<<>>}
  ELSE {<<>>} \cup UNION {{<<x>> \o t : t \in SeqsOver(S \ {x}, n - 1)} : x \in S}

Range(f) == {f[i] : i \in DOMAIN f}

\* shuffleArray, lines 20-25: every permutation of the array is a possible result
Shuffles(array) ==
  {[i \in 1..Len(array) |-> array[p[i]]] :
     p \in {q \in [1..Len(array) -> 1..Len(array)] : Range(q) = 1..Len(array)}}

\* ------------------------------------------------------------------ state
VARIABLES
  artworks,         \* line 6: the loaded records, in order
  currentArtIndex,  \* line 7: 0-based index of the record in view
  loadedArtIds,     \* line 8: ids handed to the DOM by loadArtByIndex
  isLoading,        \* line 9
  currentQuery,     \* line 10: NULL in random mode, the query in search mode
  container,        \* the children of #art-container, in document order
  detached,         \* slides taken out of the document whose image is still loading
  translating,      \* calls of translateText whose continuation has not run
  translator,       \* the translation service of this run: "answering", or
                    \* "silent" when no request to it ever comes back, and then
                    \* the continuations that wait for it are not kept
  pending,          \* suspended activations of fetchArtPieces (at an await)
  generation,       \* history: how often the reset block (lines 52-59) has run
  lastEvent         \* history, of the handler that ran last: what became of the
                    \* fetchArtPieces call it made (call), how the fetch it
                    \* finished ended (outcome), the author it pivoted on (pivot),
                    \* and whether it was the continuation of a translateText
                    \* call made before the last reset ("stale") or after
                    \* it ("fresh")

vars == <<artworks, currentArtIndex, loadedArtIds, isLoading, currentQuery,
          container, detached, translating, translator, pending, generation, lastEvent>>

\* The state as one record, so that a handler is a function from state to state.
St ==
  [artworks |-> artworks, currentArtIndex |-> currentArtIndex,
   loadedArtIds |-> loadedArtIds, isLoading |-> isLoading,
   currentQuery |-> currentQuery, container |-> container,
   detached |-> detached, translating |-> translating, translator |-> translator,
   pending |-> pending,
   generation |-> generation, lastEvent |-> lastEvent]

Becomes(s) ==
  /\ artworks' = s.artworks
  /\ currentArtIndex' = s.currentArtIndex
  /\ loadedArtIds' = s.loadedArtIds
  /\ isLoading' = s.isLoading
  /\ currentQuery' = s.currentQuery
  /\ container' = s.container
  /\ detached' = s.detached
  /\ translating' = s.translating
  /\ translator' = s.translator
  /\ pending' = s.pending
  /\ generation' = s.generation
  /\ lastEvent' = s.lastEvent

\* the state in which a handler starts: nothing done yet by this handler
Enter(s) ==
  [s EXCEPT !.lastEvent = [call |-> "none", outcome |-> "none", pivot |-> NULL,
                           continuation |-> "none"]]

\* lines 6-10 and the empty #art-container of the page
Declared ==
  [artworks |-> <<>>, currentArtIndex |-> 0, loadedArtIds |-> {},
   isLoading |-> FALSE, currentQuery |-> NULL, container |-> <<>>,
   detached |-> {}, translating |-> {}, translator |-> "silent",
   pending |-> <<>>, generation |-> 0,
   lastEvent |-> [call |-> "none", outcome |-> "none", pivot |-> NULL,
                  continuation |-> "none"]]

\* ------------------------------------------------------------ DOM helpers
\* A slide in the document is told from every other element by the record it
\* was built for and the run of the reset block it was built after (gen):
\* loadArtByIndex builds at most one slide per id between two resets. A
\* detached slide can never be in the document again; it is kept with gen 0.
ErrorElement ==
  [kind |-> "error", id |-> NoDataId, gen |-> 0, title |-> NULL, description |-> NULL]
IndicatorElement ==
  [kind |-> "indicator", id |-> NoDataId, gen |-> 0, title |-> NULL, description |-> NULL]

\* a slide that has left the document
Detach(c) == [c EXCEPT !.gen = 0, !.title = NULL, !.description = NULL]

\* innerHTML = ...: every child leaves the document; the slides among them
\* keep their image handlers, and the continuations that hold an element
\* now hold one that is out of the document for good (gen 0)
ReplaceChildren(s, children) ==
  [s EXCEPT !.container = children,
            !.detached = @ \cup {Detach(c) :
                                    c \in {d \in Range(s.container) : d.kind = "slide"}},
            !.translating = {[task EXCEPT !.gen = 0] : task \in @}]

RemoveAt(seq, k) == SubSeq(seq, 1, k - 1) \o SubSeq(seq, k + 1, Len(seq))

IsArtSlide(c) == c.kind \in {"slide", "error"}

\* lines 232-236
ShowLoadingIndicator(s) ==
  [s EXCEPT !.container = Append(@, IndicatorElement)]

\* lines 238-241
HideLoadingIndicator(s) ==
  [s EXCEPT !.container = SelectSeq(@, LAMBDA c : c.kind # "indicator")]

\* lines 243-245: innerHTML is replaced by one art-slide without a data-id
ShowError(s) == ReplaceChildren(s, <<ErrorElement>>)

\* lines 120-160: the slide element built for a record, with the
\* textContent of its title (line 141) and description (line 149)
CreateArtSlide(s, artPiece) ==
  [kind |-> "slide", id |-> artPiece.id, gen |-> s.generation,
   title |-> artPiece.title,
   description |-> IF artPiece.description # NULL THEN artPiece.description ELSE ""]

\* lines 161-163: the translateText calls createArtSlide makes for the slide;
\* each continuation holds the element it will write to
Enrichment(slide, artPiece) ==
  (IF artPiece.title # NULL /\ artPiece.title # ""
   THEN {[id |-> slide.id, gen |-> slide.gen, field |-> "title",
          text |-> artPiece.title]}
   ELSE {})
  \cup
  (IF artPiece.description # NULL /\ artPiece.description # ""
   THEN {[id |-> slide.id, gen |-> slide.gen, field |-> "description",
          text |-> artPiece.description]}
   ELSE {})

\* loadArtByIndex without the loadedArtIds.has test of line 173
LoadArtByIndexNoCheck(s, index) ==
  IF index < 0 \/ index >= Len(s.artworks) THEN s
  ELSE LET artPiece == s.artworks[index + 1]
           slide == CreateArtSlide(s, artPiece) IN
       [s EXCEPT !.translating = IF s.translator = "silent" THEN @
                                 ELSE @ \cup Enrichment(slide, artPiece),
                 !.container = Append(@, slide),
                 !.loadedArtIds = @ \cup {artPiece.id}]

\* lines 168-182 (index is 0-based, as in the code)
LoadArtByIndex(s, index) ==
  IF index < 0 \/ index >= Len(s.artworks) THEN s
  ELSE LET artPiece == s.artworks[index + 1] IN
       IF artPiece.id \in s.loadedArtIds THEN s
       ELSE LET slide == CreateArtSlide(s, artPiece) IN
            [s EXCEPT !.translating = IF s.translator = "silent" THEN @
                                      ELSE @ \cup Enrichment(slide, artPiece),
                      !.container = Append(@, slide),
                      !.loadedArtIds = @ \cup {artPiece.id}]

\* lines 198-202: detached Image objects without handlers; no state of the
\* feed depends on them
PreloadImages(s, index) == s

\* lines 65-74: the request the call sends
RequestFor(query) ==
  IF query # NULL
  THEN [kind |-> "search", q |-> query, limit |-> SearchLimit]
  ELSE [kind |-> "random", q |-> NULL, limit |-> DiscoveryLimit]

\* ResetFeed without line 55 (loadedArtIds.clear())
ResetFeedKeepLoaded(s, query) ==
  LET s1 == ReplaceChildren(ShowLoadingIndicator(s), <<>>) IN
  [s1 EXCEPT !.artworks = <<>>,
             !.currentArtIndex = 0,
             !.currentQuery = query,
             !.generation = @ + 1]

\* ResetFeed without line 56 (artworks = [])
ResetFeedKeepRecords(s, query) ==
  LET s1 == ReplaceChildren(ShowLoadingIndicator(s), <<>>) IN
  [s1 EXCEPT !.loadedArtIds = {},
             !.currentArtIndex = 0,
             !.currentQuery = query,
             !.generation = @ + 1]

\* ResetFeed without line 57 (currentArtIndex = 0)
ResetFeedKeepIndex(s, query) ==
  LET s1 == ReplaceChildren(ShowLoadingIndicator(s), <<>>) IN
  [s1 EXCEPT !.loadedArtIds = {},
             !.artworks = <<>>,
             !.currentQuery = query,
             !.generation = @ + 1]

\* lines 52-59: the reset of a non-append call
ResetFeed(s, query) ==
  LET s1 == ReplaceChildren(ShowLoadingIndicator(s), <<>>) IN
  [s1 EXCEPT !.loadedArtIds = {},
             !.artworks = <<>>,
             !.currentArtIndex = 0,
             !.currentQuery = query,
             !.generation = @ + 1]

\* fetchArtPieces without line 48 (the isLoading guard)
FetchArtPiecesNoGuard(s, query, isAppend) ==
  LET s1 == [s EXCEPT !.isLoading = TRUE, !.lastEvent.call = "accepted"]
      s2 == IF ~isAppend THEN ResetFeed(s1, query) ELSE s1
  IN [s2 EXCEPT !.pending =
        Append(@, [query |-> query, isAppend |-> isAppend,
                   request |-> RequestFor(query), stage |-> "fetch"])]

\* fetchArtPieces with the isLoading guard placed after the reset block
FetchArtPiecesLateGuard(s, query, isAppend) ==
  LET s1 == IF ~isAppend THEN ResetFeed(s, query) ELSE s IN
  IF s1.isLoading THEN [s1 EXCEPT !.lastEvent.call = "dropped"]
  ELSE [s1 EXCEPT !.isLoading = TRUE, !.lastEvent.call = "accepted",
                  !.pending =
                    Append(@, [query |-> query, isAppend |-> isAppend,
                               request |-> RequestFor(query), stage |-> "fetch"])]

\* lines 47-76: fetchArtPieces up to its first await
FetchArtPieces(s, query, isAppend) ==
  IF s.isLoading THEN [s EXCEPT !.lastEvent.call = "dropped"]
  ELSE LET s1 == [s EXCEPT !.isLoading = TRUE, !.lastEvent.call = "accepted"]
           s2 == IF ~isAppend THEN ResetFeed(s1, query) ELSE s1
       IN [s2 EXCEPT !.pending =
             Append(@, [query |-> query, isAppend |-> isAppend,
                        request |-> RequestFor(query), stage |-> "fetch"])]

\* a catch block that shows the error whatever isAppend is
CatchAlwaysShows(s, call) ==
  ShowError([s EXCEPT !.lastEvent.outcome = "failed"])

\* a catch block without line 113
CatchNeverShows(s, call) ==
  [s EXCEPT !.lastEvent.outcome = "failed"]

\* lines 112-114: the catch block
Catch(s, call) ==
  LET s1 == [s EXCEPT !.lastEvent.outcome = "failed"] IN
  IF ~call.isAppend THEN ShowError(s1) ELSE s1

\* a finally block that calls again at once when an append has not succeeded
FinallyRetries(s, i) ==
  LET s1 == [s EXCEPT !.isLoading = FALSE, !.pending = RemoveAt(@, i)] IN
  IF s.pending[i].isAppend /\ s.lastEvent.outcome \in {"failed", "empty"}
  THEN FetchArtPieces(s1, NULL, TRUE)
  ELSE s1

\* a finally block without line 116 (isLoading = false)
FinallyKeepsLoading(s, i) ==
  [s EXCEPT !.pending = RemoveAt(@, i)]

\* lines 115-117: the finally block, which also ends activation i
Finally(s, i) ==
  [s EXCEPT !.isLoading = FALSE, !.pending = RemoveAt(@, i)]

\* ApplyBatch that puts the new batch in front of the records held
ApplyBatchInFront(s, call, fetchedArtworks) ==
  IF Len(fetchedArtworks) > 0
  THEN LET s1 == [s EXCEPT !.artworks = fetchedArtworks \o @,
                           !.lastEvent.outcome = "ok"] IN
       IF ~call.isAppend
       THEN HideLoadingIndicator(
              PreloadImages(LoadArtByIndex(LoadArtByIndex(s1, 0), 1), 0))
       ELSE PreloadImages(s1, s1.currentArtIndex)
  ELSE LET s1 == [s EXCEPT !.lastEvent.outcome = "empty"] IN
       IF ~call.isAppend /\ call.query # NULL THEN FetchArtPieces(s1, NULL, FALSE)
       ELSE IF ~call.isAppend THEN ShowError(s1)
       ELSE s1

\* lines 91-111: what the call does with the filtered, mapped, shuffled batch
ApplyBatch(s, call, fetchedArtworks) ==
  IF Len(fetchedArtworks) > 0
  THEN LET s1 == [s EXCEPT !.artworks = @ \o fetchedArtworks,
                           !.lastEvent.outcome = "ok"] IN
       IF ~call.isAppend
       THEN HideLoadingIndicator(
              PreloadImages(LoadArtByIndex(LoadArtByIndex(s1, 0), 1), 0))
       ELSE PreloadImages(s1, s1.currentArtIndex)
  ELSE LET s1 == [s EXCEPT !.lastEvent.outcome = "empty"] IN
       IF ~call.isAppend /\ call.query # NULL THEN FetchArtPieces(s1, NULL, FALSE)
       ELSE IF ~call.isAppend THEN ShowError(s1)
       ELSE s1

\* lines 76-77: the first await settles. settled is "rejected" (network
\* error), "notOk" (a response with a non-success status) or "ok".
AfterFetch(s, i, settled) ==
  IF settled = "ok" THEN [s EXCEPT !.pending[i].stage = "json"]
  ELSE Finally(Catch(s, s.pending[i]), i)

\* lines 79-117: the second await settles with the parsed body, or throws
\* (parsed = FALSE: the body is no JSON, or has no data array)
AfterJson(s, i, parsed, shuffled) ==
  IF parsed THEN Finally(ApplyBatch(s, s.pending[i], shuffled), i)
  ELSE Finally(Catch(s, s.pending[i]), i)

\* findIndex of line 212: 0-based, -1 when absent
FindIndex(arts, id) ==
  IF \E j \in 1..Len(arts) : arts[j].id = id
  THEN (CHOOSE j \in 1..Len(arts) :
          arts[j].id = id /\ \A h \in 1..(j - 1) : arts[h].id # id) - 1
  ELSE -1

\* updateCurrentArtOnScroll with > for the >= of line 223
UpdateCurrentArtOnScrollStrict(s, k) ==
  LET slides == SelectSeq(s.container, IsArtSlide) IN
  IF k = 0 THEN s
  ELSE LET newArtId == slides[k].id
           newIndex == FindIndex(s.artworks, newArtId) IN
       IF newIndex # -1 /\ newIndex # s.currentArtIndex
       THEN LET s1 == [s EXCEPT !.currentArtIndex = newIndex]
                s2 == PreloadImages(LoadArtByIndex(s1, s1.currentArtIndex + 1),
                                    s1.currentArtIndex) IN
            IF s2.currentQuery = NULL
               /\ s2.currentArtIndex > Len(s2.artworks) - TailThreshold
            THEN FetchArtPieces(s2, NULL, TRUE)
            ELSE s2
       ELSE s

\* updateCurrentArtOnScroll without the !currentQuery test of line 223
UpdateCurrentArtOnScrollAnyMode(s, k) ==
  LET slides == SelectSeq(s.container, IsArtSlide) IN
  IF k = 0 THEN s
  ELSE LET newArtId == slides[k].id
           newIndex == FindIndex(s.artworks, newArtId) IN
       IF newIndex # -1 /\ newIndex # s.currentArtIndex
       THEN LET s1 == [s EXCEPT !.currentArtIndex = newIndex]
                s2 == PreloadImages(LoadArtByIndex(s1, s1.currentArtIndex + 1),
                                    s1.currentArtIndex) IN
            IF s2.currentArtIndex >= Len(s2.artworks) - TailThreshold
            THEN FetchArtPieces(s2, NULL, TRUE)
            ELSE s2
       ELSE s

\* updateCurrentArtOnScroll without the newIndex !== currentArtIndex test of
\* line 214
UpdateCurrentArtOnScrollEveryEvent(s, k) ==
  LET slides == SelectSeq(s.container, IsArtSlide) IN
  IF k = 0 THEN s
  ELSE LET newArtId == slides[k].id
           newIndex == FindIndex(s.artworks, newArtId) IN
       IF newIndex # -1
       THEN LET s1 == [s EXCEPT !.currentArtIndex = newIndex]
                s2 == PreloadImages(LoadArtByIndex(s1, s1.currentArtIndex + 1),
                                    s1.currentArtIndex) IN
            IF s2.currentQuery = NULL
               /\ s2.currentArtIndex >= Len(s2.artworks) - TailThreshold
            THEN FetchArtPieces(s2, NULL, TRUE)
            ELSE s2
       ELSE s

\* updateCurrentArtOnScroll that renders the record two places on
UpdateCurrentArtOnScrollSkipsOne(s, k) ==
  LET slides == SelectSeq(s.container, IsArtSlide) IN
  IF k = 0 THEN s
  ELSE LET newArtId == slides[k].id
           newIndex == FindIndex(s.artworks, newArtId) IN
       IF newIndex # -1 /\ newIndex # s.currentArtIndex
       THEN LET s1 == [s EXCEPT !.currentArtIndex = newIndex]
                s2 == PreloadImages(LoadArtByIndex(s1, s1.currentArtIndex + 2),
                                    s1.currentArtIndex) IN
            IF s2.currentQuery = NULL
               /\ s2.currentArtIndex >= Len(s2.artworks) - TailThreshold
            THEN FetchArtPieces(s2, NULL, TRUE)
            ELSE s2
       ELSE s

\* lines 204-229. k is the position, among the art-slide children, of the
\* slide that contains the viewport's midpoint; 0 when none does.
UpdateCurrentArtOnScroll(s, k) ==
  LET slides == SelectSeq(s.container, IsArtSlide) IN
  IF k = 0 THEN s
  ELSE LET newArtId == slides[k].id
           newIndex == FindIndex(s.artworks, newArtId) IN
       IF newIndex # -1 /\ newIndex # s.currentArtIndex
       THEN LET s1 == [s EXCEPT !.currentArtIndex = newIndex]
                s2 == PreloadImages(LoadArtByIndex(s1, s1.currentArtIndex + 1),
                                    s1.currentArtIndex) IN
            IF s2.currentQuery = NULL
               /\ s2.currentArtIndex >= Len(s2.artworks) - TailThreshold
            THEN FetchArtPieces(s2, NULL, TRUE)
            ELSE s2
       ELSE s

\* handleSimilarClick without the unknown-artist test of line 191
HandleSimilarClickAnyAuthor(s) ==
  IF Len(s.artworks) = 0 \/ s.isLoading THEN s
  ELSE IF s.currentArtIndex < Len(s.artworks)
       THEN LET currentArt == s.artworks[s.currentArtIndex + 1]
                s1 == [s EXCEPT !.lastEvent.pivot = currentArt.author] IN
            FetchArtPieces(s1, currentArt.author, FALSE)
       ELSE FetchArtPieces(s, NULL, FALSE)

\* handleSimilarClick reading artworks[0] for artworks[currentArtIndex]
HandleSimilarClickFirstRecord(s) ==
  IF Len(s.artworks) = 0 \/ s.isLoading THEN s
  ELSE LET currentArt == s.artworks[1]
           s1 == [s EXCEPT !.lastEvent.pivot = currentArt.author] IN
       IF currentArt.author # UNKNOWN_ARTIST
       THEN FetchArtPieces(s1, currentArt.author, FALSE)
       ELSE FetchArtPieces(s1, NULL, FALSE)

\* handleSimilarClick without the test of line 188
HandleSimilarClickNoGuard(s) ==
  IF s.currentArtIndex < Len(s.artworks)
  THEN LET currentArt == s.artworks[s.currentArtIndex + 1]
           s1 == [s EXCEPT !.lastEvent.pivot = currentArt.author] IN
       IF currentArt.author # UNKNOWN_ARTIST
       THEN FetchArtPieces(s1, currentArt.author, FALSE)
       ELSE FetchArtPieces(s1, NULL, FALSE)
  ELSE FetchArtPieces(s, NULL, FALSE)

\* lines 184-196
HandleSimilarClick(s) ==
  IF Len(s.artworks) = 0 \/ s.isLoading THEN s
  ELSE IF s.currentArtIndex < Len(s.artworks)
       THEN LET currentArt == s.artworks[s.currentArtIndex + 1]
                s1 == [s EXCEPT !.lastEvent.pivot = currentArt.author] IN
            IF currentArt.author # UNKNOWN_ARTIST
            THEN FetchArtPieces(s1, currentArt.author, FALSE)
            ELSE FetchArtPieces(s1, NULL, FALSE)
       ELSE FetchArtPieces(s, NULL, FALSE)

\* an error handler that also moves currentArtIndex back by one
ImgOnErrorShiftsIndex(s, slide) ==
  [s EXCEPT !.container = SelectSeq(@, LAMBDA c : ~(c.id = slide.id /\ c.gen = slide.gen)),
            !.detached = @ \ {slide},
            !.currentArtIndex = @ - 1]

\* lines 132-134: the image of slide fails to load; slide.remove() takes the
\* element out of the document if it is in it
ImgOnError(s, slide) ==
  [s EXCEPT !.container = SelectSeq(@, LAMBDA c : ~(c.id = slide.id /\ c.gen = slide.gen)),
            !.detached = @ \ {slide}]

\* ------------------------------------------------------------ translation
\* what the translation service can do with one request: the fetch rejects,
\* answers with a failure status, the body is not JSON, the JSON is null,
\* has no responseData, has an empty translatedText, or has a translation
Replies ==
  {"rejected", "notOk", "badJson", "nullData", "noResponseData", "emptyText", "translated"}

IsBlank(text) == text \in {"", " "}

\* the text the service gives back for a text
Translated(text) ==
  CASE text = "title" -> "biaoti"
    [] text = "text" -> "wenben"
    [] text = UNTITLED -> "wuti"
    [] OTHER -> "fanyi"

Returns(value) == [kind |-> "return", value |-> value]
Throws(error) == [kind |-> "throw", value |-> error]

\* lines 29-32, the body of the try block
TryBlock(text, reply) ==
  CASE reply = "rejected" -> Throws("TypeError")
    [] reply = "notOk" -> Returns(text)
    [] reply = "badJson" -> Throws("SyntaxError")
    [] reply = "nullData" -> Throws("TypeError")
    [] reply = "noResponseData" -> Returns(text)
    [] reply = "emptyText" -> Returns(text)
    [] reply = "translated" -> Returns(Translated(text))

\* translateText without its catch clause
TranslateTextNoCatch(text, reply) ==
  IF text = NULL \/ IsBlank(text) THEN Returns(text)
  ELSE TryBlock(text, reply)

\* lines 26-37: how the promise of translateText(text) settles
TranslateText(text, reply) ==
  IF text = NULL \/ IsBlank(text) THEN Returns(text)
  ELSE LET tried == TryBlock(text, reply) IN
       IF tried.kind = "throw" THEN Returns(text) ELSE tried

\* a continuation that sets the text of both fields of its slide
ThenWritesBoth(s, task, result) ==
  LET written ==
        [k \in DOMAIN s.container |->
           IF /\ s.container[k].kind = "slide"
              /\ s.container[k].id = task.id
              /\ s.container[k].gen = task.gen
           THEN [s.container[k] EXCEPT !.title = result.value,
                                       !.description = result.value]
           ELSE s.container[k]]
  IN [s EXCEPT !.container = IF result.kind = "return" THEN written ELSE @,
               !.translating = @ \ {task},
               !.lastEvent.continuation =
                  IF task.gen = s.generation THEN "fresh" ELSE "stale"]

\* a continuation that looks its slide up in the document by data-id
ThenByDataId(s, task, result) ==
  LET written ==
        [k \in DOMAIN s.container |->
           IF s.container[k].kind = "slide" /\ s.container[k].id = task.id
           THEN [s.container[k] EXCEPT ![task.field] = result.value]
           ELSE s.container[k]]
  IN [s EXCEPT !.container = IF result.kind = "return" THEN written ELSE @,
               !.translating = @ \ {task},
               !.lastEvent.continuation =
                  IF task.gen = s.generation THEN "fresh" ELSE "stale"]

\* lines 162-163: .then(t => title.textContent = t), run when the promise
\* is fulfilled and skipped when it is rejected; the element is the one the
\* closure holds, in the document or not
Then(s, task, result) ==
  LET written ==
        [k \in DOMAIN s.container |->
           IF /\ s.container[k].kind = "slide"
              /\ s.container[k].id = task.id
              /\ s.container[k].gen = task.gen
           THEN [s.container[k] EXCEPT ![task.field] = result.value]
           ELSE s.container[k]]
  IN [s EXCEPT !.container = IF result.kind = "return" THEN written ELSE @,
               !.translating = @ \ {task},
               !.lastEvent.continuation =
                  IF task.gen = s.generation THEN "fresh" ELSE "stale"]

\* ---------------------------------------------------------------- actions
\* line 276: the script ends by calling fetchArtPieces()
InitState == FetchArtPieces(Declared, NULL, FALSE)

Init ==
  /\ artworks = InitState.artworks
  /\ currentArtIndex = InitState.currentArtIndex
  /\ loadedArtIds = InitState.loadedArtIds
  /\ isLoading = InitState.isLoading
  /\ currentQuery = InitState.currentQuery
  /\ container = InitState.container
  /\ detached = InitState.detached
  /\ translating = InitState.translating
  /\ translator = InitState.translator
  /\ pending = InitState.pending
  /\ generation = InitState.generation
  /\ lastEvent = InitState.lastEvent

\* the catalog's answers to a request: at most MaxBatch distinct items, no
\* more than the request's limit, and none once the feed holds MaxLen records
Answers(s, call) ==
  {data \in SeqsOver(Catalog, MaxBatch) :
     /\ Len(data) <= call.request.limit
     /\ Len(s.artworks) + Len(data) <= MaxLen}

FetchSettles ==
  \E i \in 1..Len(pending), settled \in {"rejected", "notOk", "ok"} :
    /\ pending[i].stage = "fetch"
    /\ Becomes(AfterFetch(Enter(St), i, settled))

JsonThrows ==
  \E i \in 1..Len(pending) :
    /\ pending[i].stage = "json"
    /\ Becomes(AfterJson(Enter(St), i, FALSE, <<>>))

JsonResolves ==
  \E i \in 1..Len(pending) :
    /\ pending[i].stage = "json"
    /\ \E data \in Answers(St, pending[i]) :
         \E shuffled \in Shuffles(FilterMap(data)) :
           Becomes(AfterJson(Enter(St), i, TRUE, shuffled))

Scroll ==
  \E k \in 0..Len(SelectSeq(container, IsArtSlide)) :
    Becomes(UpdateCurrentArtOnScroll(Enter(St), k))

\* a click that would reset the feed is taken only MaxResets times
SimilarClick ==
  /\ generation <= MaxResets \/ Len(artworks) = 0 \/ isLoading
  /\ Becomes(HandleSimilarClick(Enter(St)))

ImgError ==
  \E slide \in {c \in Range(container) : c.kind = "slide"} \cup detached :
    Becomes(ImgOnError(Enter(St), slide))

Next ==
  \/ FetchSettles
  \/ JsonThrows
  \/ JsonResolves
  \/ Scroll
  \/ SimilarClick
  \/ ImgError

Spec == Init /\ [][Next]_vars

\* ------------------------------- with a translation service that answers
InitStateT == FetchArtPieces([Declared EXCEPT !.translator = "answering"], NULL, FALSE)

InitT ==
  /\ artworks = InitStateT.artworks
  /\ currentArtIndex = InitStateT.currentArtIndex
  /\ loadedArtIds = InitStateT.loadedArtIds
  /\ isLoading = InitStateT.isLoading
  /\ currentQuery = InitStateT.currentQuery
  /\ container = InitStateT.container
  /\ detached = InitStateT.detached
  /\ translating = InitStateT.translating
  /\ translator = InitStateT.translator
  /\ pending = InitStateT.pending
  /\ generation = InitStateT.generation
  /\ lastEvent = InitStateT.lastEvent

\* the catalog's answers here: the items that have an image and an artist,
\* and none once the feed holds MaxLenT records
AnswersT(s, call) ==
  {data \in Answers(s, call) :
     /\ \A k \in 1..Len(data) : data[k].image_id # NULL /\ data[k].artist_display # <<>>
     /\ Len(s.artworks) + Len(data) <= MaxLenT}

JsonResolvesT ==
  \E i \in 1..Len(pending) :
    /\ pending[i].stage = "json"
    /\ \E data \in AnswersT(St, pending[i]) :
         \E shuffled \in Shuffles(FilterMap(data)) :
           Becomes(AfterJson(Enter(St), i, TRUE, shuffled))

TranslationSettles ==
  \E task \in translating :
    \E result \in {TranslateText(task.text, reply) : reply \in Replies} :
      Becomes(Then(Enter(St), task, result))

NextT ==
  \/ FetchSettles
  \/ JsonThrows
  \/ JsonResolvesT
  \/ Scroll
  \/ SimilarClick
  \/ ImgError
  \/ TranslationSettles

SpecT == InitT /\ [][NextT]_vars

\* ------------------------- one feed, with a catalog of four works to show
CatalogW ==
  Catalog \cup
  {[id |-> 5, image_id |-> "img", artist_display |-> <<"Degas">>,
    title |-> "title", short_description |-> NULL]}

\* the answers of that catalog, bounded as in Answers
AnswersW(s, call) ==
  {data \in SeqsOver(CatalogW, MaxBatch) :
     /\ Len(data) <= call.request.limit
     /\ Len(s.artworks) + Len(data) <= MaxLen}

JsonResolvesW ==
  \E i \in 1..Len(pending) :
    /\ pending[i].stage = "json"
    /\ \E data \in AnswersW(St, pending[i]) :
         \E shuffled \in Shuffles(FilterMap(data)) :
           Becomes(AfterJson(Enter(St), i, TRUE, shuffled))

\* the user scrolls and never pivots
NextW ==
  \/ FetchSettles
  \/ JsonThrows
  \/ JsonResolvesW
  \/ Scroll
  \/ ImgError

SpecW == Init /\ [][NextW]_vars

\* ----------------------------------------------------------------- claims
Ids(arts) == {arts[j].id : j \in 1..Len(arts)}

\* the requests a call can be made with
Queries == {NULL, UNKNOWN_ARTIST} \cup {MapItem(item).author : item \in Catalog}

\* a state without its history
Feed(s) ==
  [artworks |-> s.artworks, currentArtIndex |-> s.currentArtIndex,
   loadedArtIds |-> s.loadedArtIds, isLoading |-> s.isLoading,
   currentQuery |-> s.currentQuery, container |-> s.container,
   detached |-> s.detached, translating |-> s.translating,
   translator |-> s.translator, pending |-> s.pending]

\* this step is a scroll event that changed the current index
IndexMoved ==
  /\ currentArtIndex' # currentArtIndex
  /\ artworks' = artworks

\* this step accepted a non-append call: the reset block ran
ResetStep ==
  /\ lastEvent'.call = "accepted"
  /\ \E i \in 1..Len(pending') : ~pending'[i].isAppend /\ pending'[i].stage = "fetch"

\* C1: after any sequence of fresh and append fetches, artworks holds no two
\* records with the same id.
C1_NoDuplicateIds ==
  \A i, j \in 1..Len(artworks) : i # j => artworks[i].id # artworks[j].id

C3_OneFetchOutstanding ==
  /\ Len(pending) <= 1
  /\ isLoading <=> pending # <<>>

\* C3 witness: a fetch is outstanding and the last handler asked for another
C3_Witness ==
  /\ Len(pending) = 1
  /\ isLoading
  /\ lastEvent.call = "dropped"
  /\ currentArtIndex > 0

\* C4: a fetchArtPieces call made while isLoading is true, with any query and
\* either value of isAppend, changes nothing and sends no request; and when
\* the outstanding fetch ends, no request is outstanding (nothing was queued).
C4_CallWhileLoadingDropped ==
  [][/\ isLoading =>
          \A query \in Queries, isAppend \in BOOLEAN :
            Feed(FetchArtPieces(St, query, isAppend)) = Feed(St)
     /\ (lastEvent'.call = "dropped" /\ lastEvent'.outcome = "none")
          => /\ pending' = pending
             /\ artworks' = artworks
             /\ currentQuery' = currentQuery
     /\ lastEvent'.outcome \in {"ok", "empty", "failed"}
          => pending' = <<>>]_vars

\* C4 witness: a handler called fetchArtPieces while a fetch was outstanding
C4_Witness ==
  /\ lastEvent.call = "dropped"
  /\ lastEvent.outcome = "none"
  /\ isLoading
  /\ pending[1].stage = "json"

\* C5: when a non-append search fetch ends with no surviving record, a
\* non-append Discovery fetch has been issued and the mode is Discovery.
C5_EmptySearchFallsBack ==
  (lastEvent.outcome = "empty" /\ lastEvent.call # "none")
    => /\ currentQuery = NULL
       /\ Len(pending) = 1
       /\ pending[1].request.kind = "random"
       /\ ~pending[1].isAppend

\* C6: in random mode with no fetch outstanding, a scroll that moves the
\* current index to artworks.length - 3 or beyond issues exactly one append
\* fetch; an index change while a fetch is outstanding issues none.
C6_TailTriggerOnce ==
  [][IndexMoved =>
       /\ (~isLoading /\ currentQuery = NULL
           /\ currentArtIndex' >= Len(artworks) - TailThreshold)
            => /\ isLoading'
               /\ pending' = <<[query |-> NULL, isAppend |-> TRUE,
                                request |-> [kind |-> "random", q |-> NULL,
                                             limit |-> DiscoveryLimit],
                                stage |-> "fetch"]>>
       /\ (~isLoading /\ currentQuery = NULL
           /\ currentArtIndex' < Len(artworks) - TailThreshold)
            => pending' = <<>>
       /\ isLoading => pending' = pending]_vars

\* C6 witness: the index changed again while the tail-triggered fetch was
\* outstanding
C6_Witness ==
  /\ Len(pending) = 1
  /\ pending[1].isAppend
  /\ lastEvent.call = "dropped"
  /\ currentArtIndex >= Len(artworks) - TailThreshold

\* C6 witness of the other case: an index change below the threshold
C6_BelowThreshold ==
  /\ currentQuery = NULL
  /\ ~isLoading
  /\ Len(artworks) > TailThreshold
  /\ currentArtIndex < Len(artworks) - TailThreshold
  /\ lastEvent.outcome = "none"
  /\ generation = 1

\* C7: in search mode no scroll issues a fetch: between resets no request is
\* added, none outstanding is an append, and artworks changes only when the
\* reset's own fetch fills the empty feed.
C7_SearchNeverExtends ==
  [][(currentQuery # NULL /\ generation' = generation) =>
       /\ Len(pending') <= Len(pending)
       /\ \A i \in 1..Len(pending') : ~pending'[i].isAppend
       /\ lastEvent'.call # "accepted"
       /\ artworks' # artworks => artworks = <<>>]_vars

\* C7 witness: a scroll to the last record of a search feed, no fetch issued
C7_Witness ==
  /\ currentQuery # NULL
  /\ Len(artworks) >= 2
  /\ currentArtIndex = Len(artworks) - 1
  /\ pending = <<>>
  /\ lastEvent.outcome = "none"

\* C8: no search for the unknown-artist literal is ever issued; a pivot from
\* a record with that author resets the feed in random mode.
C8_NeverSearchesSentinel ==
  /\ [](/\ currentQuery # UNKNOWN_ARTIST
        /\ \A i \in 1..Len(pending) : pending[i].request.q # UNKNOWN_ARTIST)
  /\ [][(ResetStep /\ artworks # <<>>
         /\ artworks[currentArtIndex + 1].author = UNKNOWN_ARTIST)
          => /\ currentQuery' = NULL
             /\ artworks' = <<>>
             /\ pending' = <<[query |-> NULL, isAppend |-> FALSE,
                              request |-> [kind |-> "random", q |-> NULL,
                                           limit |-> DiscoveryLimit],
                              stage |-> "fetch"]>>]_vars

\* C8 witness: the user pivoted on a record of an unknown artist
C8_Witness ==
  /\ lastEvent.pivot = UNKNOWN_ARTIST
  /\ lastEvent.call = "accepted"

ImgErrorStep(c) ==
  /\ c \in Range(container)
  /\ c.kind = "slide"
  /\ container' = SelectSeq(container, LAMBDA d : d # c)
  /\ generation' = generation

\* C12: when the image of a rendered record fails, the record with that id
\* leaves both artworks and loadedArtIds, and the records that remain keep
\* their identities and their order.
C12_AssetFailureEvictsRecord ==
  [][\A c \in Range(container) :
       ImgErrorStep(c) =>
         /\ c.id \notin Ids(artworks')
         /\ c.id \notin loadedArtIds'
         /\ artworks' = SelectSeq(artworks, LAMBDA a : a.id # c.id)]_vars

\* C13: when the record whose image fails is at or before currentArtIndex,
\* currentArtIndex goes down by exactly one; when it is after, currentArtIndex
\* is unchanged.
C13_AssetFailureShiftsIndex ==
  [][\A c \in Range(container) :
       ImgErrorStep(c) =>
         IF FindIndex(artworks, c.id) <= currentArtIndex
         THEN currentArtIndex' = currentArtIndex - 1
         ELSE currentArtIndex' = currentArtIndex]_vars

\* the ids whose slide an image error has taken out of the current feed
RemovedIds ==
  {id \in loadedArtIds : \A k \in 1..Len(container) : container[k].id # id}

\* C14: the image error handler is idempotent: run a second time for the same
\* slide, after the first run removed it, it changes nothing (artworks,
\* loadedArtIds and currentArtIndex included).
C14_AssetFailureIdempotent ==
  \A slide \in {CreateArtSlide(St, artworks[k]) : k \in 1..Len(artworks)} \cup detached :
    LET once == ImgOnError(St, slide) IN
    /\ ImgOnError(once, slide) = once
    /\ slide.id \in RemovedIds /\ slide.gen = generation => once = St

\* an image error has removed a slide of the current feed
C14_Witness ==
  /\ RemovedIds # {}
  /\ Len(artworks) > 1
  /\ currentArtIndex > 0

\* C15: whenever artworks is not empty, 0 <= currentArtIndex < artworks.length.
C15_IndexInRange ==
  Len(artworks) > 0 => 0 <= currentArtIndex /\ currentArtIndex < Len(artworks)

\* after a reset, the image of the record at index 0 has failed while
\* currentArtIndex is 0
C15_Witness ==
  /\ generation > 1
  /\ Len(artworks) > 0
  /\ currentArtIndex = 0
  /\ artworks[1].id \in RemovedIds

\* the step in which the one outstanding call ends with the given outcome
CallEnds(isAppend, outcome) ==
  /\ Len(pending) = 1
  /\ pending[1].isAppend = isAppend
  /\ lastEvent'.outcome = outcome

\* C16: a successful append leaves the records held before as an unchanged
\* prefix of artworks, with the new batch after it, and leaves currentArtIndex
\* and currentQuery unchanged.
C16_AppendKeepsPrefix ==
  [][CallEnds(TRUE, "ok") =>
       /\ Len(artworks') > Len(artworks)
       /\ SubSeq(artworks', 1, Len(artworks)) = artworks
       /\ currentArtIndex' = currentArtIndex
       /\ currentQuery' = currentQuery]_vars

\* an append has just extended a feed the user had scrolled into
C16_Witness ==
  /\ lastEvent.outcome = "ok"
  /\ currentArtIndex > 0
  /\ Len(artworks) > TailThreshold

\* C17: an append whose request fails, or whose filtered batch is empty,
\* leaves artworks, loadedArtIds, currentArtIndex and currentQuery unchanged,
\* shows no error, and clears isLoading.
C17_FailedAppendIsSilent ==
  [][CallEnds(TRUE, "failed") \/ CallEnds(TRUE, "empty") =>
       /\ artworks' = artworks
       /\ loadedArtIds' = loadedArtIds
       /\ currentArtIndex' = currentArtIndex
       /\ currentQuery' = currentQuery
       /\ container' = container
       /\ ErrorElement \notin Range(container')
       /\ ~isLoading']_vars

\* an append has just failed, the feed still on screen
C17_Witness ==
  /\ lastEvent.outcome = "failed"
  /\ currentArtIndex > 0
  /\ Len(artworks) > 0
  /\ ~isLoading

\* C18: a non-append call whose request fails (in either mode), or a
\* non-append call without query whose filtered batch is empty, ends with the
\* error shown, artworks empty and isLoading cleared; the error then stays.
C18_FreshFailureShowsError ==
  [][/\ (\/ CallEnds(FALSE, "failed")
         \/ CallEnds(FALSE, "empty") /\ pending[1].query = NULL)
        => /\ container' = <<ErrorElement>>
           /\ artworks' = <<>>
           /\ ~isLoading'
     /\ container = <<ErrorElement>>
        => container' = container /\ artworks' = <<>>]_vars

\* a search has just failed and the error is on screen
C18_Witness ==
  /\ lastEvent.outcome = "failed"
  /\ currentQuery # NULL
  /\ container = <<ErrorElement>>
  /\ ~isLoading

\* the record a slide of the document was built for
RecordOf(slide) ==
  CHOOSE a \in Range(artworks) : a.id = slide.id

\* the texts a field of a slide can show for the record's text
Shown(text) ==
  IF text = NULL THEN {""} ELSE {text, Translated(text)}

\* the step in which the continuation of a translateText call runs
TranslationStep ==
  lastEvent'.continuation # "none"

\* C11: a translation continuation whose call was made before the last reset
\* changes nothing of the records, the displayed text or the rendered view
\* when it runs; and no fetch continuation is outstanding when a reset
\* happens, so none can run after a reset that followed its call.
C11_StaleContinuationInvisible ==
  [][/\ lastEvent'.continuation = "stale"
        => /\ container' = container
           /\ artworks' = artworks
           /\ loadedArtIds' = loadedArtIds
           /\ currentArtIndex' = currentArtIndex
           /\ currentQuery' = currentQuery
           /\ isLoading' = isLoading
     /\ generation' # generation => pending = <<>>]_vars

\* a continuation from before the reset has run while the new feed shows
\* slides
C11_Witness ==
  /\ lastEvent.continuation = "stale"
  /\ generation > 1
  /\ \E k \in 1..Len(container) : container[k].kind = "slide"

\* C19: whatever the translation service does, translateText settles with
\* the translation or with the text it was given, never with an error; every
\* slide shows, in each field, the record's text or its translation, never
\* nothing; and a translation continuation never shows an error or changes
\* the feed.
C19_TranslationNeverFails ==
  /\ [](/\ \A task \in translating, reply \in Replies :
             LET result == TranslateText(task.text, reply) IN
             /\ result.kind = "return"
             /\ result.value \in {task.text, Translated(task.text)}
             /\ ~IsBlank(result.value)
        /\ \A k \in 1..Len(container) :
             container[k].kind = "slide" =>
               /\ container[k].title \in Shown(RecordOf(container[k]).title)
               /\ container[k].description
                    \in Shown(RecordOf(container[k]).description))
  /\ [][TranslationStep =>
          /\ Len(container') = Len(container)
          /\ \A k \in 1..Len(container) :
               /\ container'[k].kind = container[k].kind
               /\ container'[k].id = container[k].id
          /\ artworks' = artworks
          /\ loadedArtIds' = loadedArtIds
          /\ currentArtIndex' = currentArtIndex
          /\ isLoading' = isLoading
          /\ pending' = pending]_vars

\* a slide whose title request has failed and still shows the title of its
\* record, and whose description has been translated
C19_Witness ==
  \E k \in 1..Len(container) :
    /\ container[k].kind = "slide"
    /\ \A task \in translating : task.id # container[k].id \/ task.gen # generation
    /\ container[k].title = RecordOf(container[k]).title
    /\ RecordOf(container[k]).description # NULL
    /\ container[k].description = Translated(RecordOf(container[k]).description)

\* C20: loadArtByIndex does nothing for an index out of range and for a record
\* whose id is in loadedArtIds (no slide, no translateText call), and is
\* idempotent; the document never holds two slides with one id, and a slide
\* enters it only for an id that was not in loadedArtIds.
C20_MaterializeOncePerId ==
  /\ [](/\ \A index \in -1..(Len(artworks) + 1) :
             LET once == LoadArtByIndex(St, index) IN
             /\ index < 0 \/ index >= Len(artworks) => once = St
             /\ (/\ index >= 0
                 /\ index < Len(artworks)
                 /\ artworks[index + 1].id \in loadedArtIds) => once = St
             /\ LoadArtByIndex(once, index) = once
        /\ \A j, k \in 1..Len(container) :
             j # k /\ container[j].kind = "slide" => container[j].id # container[k].id)
  /\ [][\A k \in 1..Len(container') :
          (/\ container'[k].kind = "slide"
           /\ generation' = generation
           /\ \A j \in 1..Len(container) : container[j].id # container'[k].id)
          => /\ container'[k].id \notin loadedArtIds
             /\ container'[k].id \in loadedArtIds'
             /\ \E task \in translating' \ translating : task.id = container'[k].id]_vars

\* the scroll handler has called loadArtByIndex for the record after the
\* current one, which repeats an id that is already rendered
C20_Witness ==
  /\ currentArtIndex > 0
  /\ currentArtIndex + 1 < Len(artworks)
  /\ artworks[currentArtIndex + 2].id \in loadedArtIds
  /\ \E j \in 1..(currentArtIndex + 1) : artworks[j].id = artworks[currentArtIndex + 2].id
  /\ translating # {}

\* C21: the scroll handler changes state only when the slide at the
\* viewport's midpoint is that of a record at an index other than
\* currentArtIndex: then currentArtIndex becomes that index and the record
\* after it is rendered; when the index is the same, or no slide is at the
\* midpoint, or the slide's id is in no record, nothing changes and no call
\* is made.
C21_ScrollActsOnIndexChange ==
  LET slides == SelectSeq(container, IsArtSlide) IN
  \A k \in 0..Len(slides) :
    LET before == Enter(St)
        after == UpdateCurrentArtOnScroll(before, k)
        newIndex == IF k = 0 THEN -1 ELSE FindIndex(artworks, slides[k].id) IN
    IF newIndex # -1 /\ newIndex # currentArtIndex
    THEN /\ after.currentArtIndex = newIndex
         /\ after.artworks = artworks
         /\ after.currentQuery = currentQuery
         /\ newIndex + 1 < Len(artworks)
              => after.loadedArtIds = loadedArtIds \cup {artworks[newIndex + 2].id}
         /\ newIndex + 1 >= Len(artworks) => after.loadedArtIds = loadedArtIds
    ELSE after = before

\* the feed of a search, scrolled away from its first record, and no call
\* made
C21_Witness ==
  /\ currentQuery # NULL
  /\ currentArtIndex > 0
  /\ artworks[currentArtIndex + 1].id \in loadedArtIds
  /\ lastEvent.call = "none"
  /\ ~isLoading

\* the call an append makes
AppendCall ==
  [query |-> NULL, isAppend |-> TRUE, request |-> RequestFor(NULL), stage |-> "fetch"]

\* an append has just ended without new records
AppendJustFailed ==
  /\ lastEvent.outcome \in {"failed", "empty"}
  /\ Len(artworks) > 0

\* C22: an append that ends without new records (failure or empty batch) is
\* not repeated at once; from the state it leaves, a scroll that moves
\* currentArtIndex to artworks.length - 3 or beyond makes a new append call
\* and any other scroll makes none; and an append call is only ever made by
\* such a scroll.
C22_RetryOnQualifyingScroll ==
  /\ [](AppendJustFailed =>
          /\ pending = <<>>
          /\ ~isLoading
          /\ currentQuery = NULL
          /\ LET slides == SelectSeq(container, IsArtSlide) IN
             \A k \in 0..Len(slides) :
               LET after == UpdateCurrentArtOnScroll(Enter(St), k) IN
               IF /\ after.currentArtIndex # currentArtIndex
                  /\ after.currentArtIndex >= Len(artworks) - TailThreshold
               THEN after.pending = <<AppendCall>> /\ after.isLoading
               ELSE after.pending = <<>> /\ ~after.isLoading)
  /\ [][(Len(pending') = 1 /\ pending'[1] = AppendCall /\ lastEvent'.call = "accepted")
          => /\ IndexMoved
             /\ pending = <<>>
             /\ currentQuery = NULL
             /\ currentArtIndex' >= Len(artworks) - TailThreshold]_vars

\* an append has just failed and a slide is on screen that a scroll can move
\* the index to
C22_Witness ==
  /\ AppendJustFailed
  /\ \E k \in 1..Len(container) :
       /\ container[k].kind = "slide"
       /\ FindIndex(artworks, container[k].id) # currentArtIndex
       /\ FindIndex(artworks, container[k].id) >= Len(artworks) - TailThreshold

\* C24: isLoading is true exactly while a call is outstanding, and the step
\* in which the catalog's answer ends a call (with records, with none, or
\* with a failure) leaves isLoading false.
C24_LoadingClearedOnResponse ==
  /\ [](isLoading <=> Len(pending) > 0)
  /\ [][lastEvent'.outcome # "none" => ~isLoading' /\ pending' = <<>>]_vars

\* a search has just come back without records
C24_Witness ==
  /\ lastEvent.outcome = "empty"
  /\ currentQuery # NULL
  /\ ~isLoading
  /\ pending = <<>>

\* C23: the title and the description continuation of one slide are
\* independent: run in either order, with any two replies of the service,
\* they leave the same state, in which the title shows what the title call
\* settled with and the description what the description call settled with.
C23_FieldsIndependent ==
  \A t1, t2 \in translating :
    (/\ t1.id = t2.id
     /\ t1.gen = t2.gen
     /\ t1.field = "title"
     /\ t2.field = "description")
    => \A r1, r2 \in Replies :
         LET result1 == TranslateText(t1.text, r1)
             result2 == TranslateText(t2.text, r2)
             titleFirst == Then(Then(St, t1, result1), t2, result2)
             descriptionFirst == Then(Then(St, t2, result2), t1, result1) IN
         /\ titleFirst = descriptionFirst
         /\ titleFirst.translating = translating \ {t1, t2}
         /\ \A k \in 1..Len(container) :
              (/\ container[k].kind = "slide"
               /\ container[k].id = t1.id
               /\ container[k].gen = t1.gen)
              => /\ titleFirst.container[k].title = result1.value
                 /\ titleFirst.container[k].description = result2.value

\* a slide whose title has been translated and whose description request has
\* failed and still shows the description of its record
C23_Witness ==
  \E k \in 1..Len(container) :
    /\ container[k].kind = "slide"
    /\ \A task \in translating : task.id # container[k].id \/ task.gen # generation
    /\ container[k].title = Translated(RecordOf(container[k]).title)
    /\ RecordOf(container[k]).description # NULL
    /\ container[k].description = RecordOf(container[k]).description

\* the slides in the document
Slides == {c \in Range(container) : c.kind = "slide"}

\* C25: a non-append call that the catalog has answered ends either with
\* artworks non-empty and its first record rendered, or with the error
\* shown; it never ends with artworks empty, no error shown and no call
\* outstanding.
C25_FreshLoadEndsFilledOrError ==
  [][(Len(pending) = 1 /\ ~pending[1].isAppend /\ lastEvent'.outcome # "none")
       => \/ /\ Len(artworks') > 0
             /\ \E c \in Range(container') : c.kind = "slide" /\ c.id = artworks'[1].id
          \/ ErrorElement \in Range(container')
          \/ Len(pending') > 0]_vars

\* C26: whenever no call is outstanding and currentArtIndex + 1 is an index
\* of artworks, the record at that index is rendered.
C26_NextRecordRendered ==
  (~isLoading /\ currentArtIndex + 1 < Len(artworks))
    => artworks[currentArtIndex + 2].id \in loadedArtIds

\* C27: whenever artworks is not empty and no call is outstanding, the record
\* at currentArtIndex has its slide in the document.
C27_CurrentRecordOnScreen ==
  (Len(artworks) > 0 /\ ~isLoading)
    => \E c \in Slides : c.id = artworks[currentArtIndex + 1].id

\* C28: loadedArtIds is always the set of ids of a prefix of artworks, and
\* the slides stand in the document in the order of their records in
\* artworks.
C28_RenderedIsPrefixInOrder ==
  /\ \E n \in 0..Len(artworks) : loadedArtIds = Ids(SubSeq(artworks, 1, n))
  /\ LET slides == SelectSeq(container, LAMBDA c : c.kind = "slide") IN
     \A j, k \in 1..Len(slides) :
       j < k => FindIndex(artworks, slides[j].id) < FindIndex(artworks, slides[k].id)

\* three records rendered one after the other, a record with a fourth id
\* not yet, and a slide removed by an image error
C28_Witness ==
  /\ Cardinality(loadedArtIds) >= TailThreshold
  /\ Cardinality(Ids(artworks)) > Cardinality(loadedArtIds)
  /\ Cardinality(Slides) < Cardinality(loadedArtIds)
  /\ Cardinality(Slides) > 1

\* C29: a pivot click while artworks is empty or a call is outstanding makes
\* no call and changes nothing; and once a non-append call has ended with
\* artworks empty, artworks stays empty and no call is ever made again.
C29_DeadPivot ==
  /\ []((Len(artworks) = 0 \/ isLoading)
          => HandleSimilarClick(Enter(St)) = Enter(St))
  /\ [][(Len(artworks) = 0 /\ ~isLoading)
          => /\ artworks' = artworks
             /\ pending' = <<>>
             /\ ~isLoading'
             /\ currentQuery' = currentQuery
             /\ container' = container
             /\ lastEvent'.call = "none"]_vars

\* a later event has run after a search ended with artworks empty and no
\* error shown
C29_Witness ==
  /\ Len(artworks) = 0
  /\ ~isLoading
  /\ generation > 1
  /\ currentQuery # NULL
  /\ lastEvent.outcome = "none"
  /\ ErrorElement \notin Range(container)

====
